---- MODULE Spec2Model ----
(***************************************************************************)
(* Model of pkg/entities/manager.go: the EntityManager that sequences      *)
(* calls to the dapr state store, etcd, the search service and the state   *)
(* machine runtime.  Strings that are concatenated or compared by prefix   *)
(* (entity IDs, mapper names, etcd keys) are sequences of characters.      *)
(* inflight holds the invocations that are between two collaborator calls; *)
(* it is empty wherever a handler runs without interleaving.               *)
(***************************************************************************)
EXTENDS Integers, Sequences, FiniteSets, TLC

VARIABLES store, registry, search, rtLive, msgs, last, nops, inflight

vars == <<store, registry, search, rtLive, msgs, last, nops, inflight>>

(* ------------------------------ bounds --------------------------------- *)
MaxOps == 3
MaxMappers == 2

(* ------------------------------ inputs --------------------------------- *)
InputIDs == {<<>>, <<"a">>, <<"a", "b">>}
Types == {<<"d">>}
PropVals == {"p1", "p2"}
CfgVals == {"c1"}
Names == {<<"c">>, <<"b", "c">>}
Rules == {"r1", "r2"}
MapperVals ==
  {[Name |-> <<"c">>, TQLString |-> "r1"], [Name |-> <<"c">>, TQLString |-> "r2"],
   [Name |-> <<"b", "c">>, TQLString |-> "r1"]}
MapperLists == UNION {[1..n -> MapperVals] : n \in 0..MaxMappers}
NameLists ==
  UNION {[1..n -> {m \in MapperVals : m.TQLString = "r1"}] : n \in 0..MaxMappers}

(* ------------------------------ constants ------------------------------ *)
TQLEtcdPrefix == <<"c", "o", "r", "e", ".", "t", "q", "l", ".">>
MapperPrefix == <<"c", "o", "r", "e", ".", "m", "a", "p", "p", "e", "r">>
Subscription == <<"s", "u", "b", "s", "c", "r", "i", "p", "t", "i", "o", "n">>

ErrEntityNotFound == <<"ErrEntityNotFound">>
ErrEntityAreadyExisted == <<"ErrEntityAreadyExisted">>
NoErr == <<>>
NoBase == [none |-> TRUE]

(* errors.Wrap(err, msg): nil stays nil, otherwise msg is put in front.    *)
Wrap(err, msg) == IF err = NoErr THEN NoErr ELSE <<msg>> \o err
(* errors.Is(err, target) for a sentinel target: the root of the chain.    *)
Is(err, target) == err # NoErr /\ err[Len(err)] = target[1]

(* ------------------------------ snapshot codec ------------------------- *)
EncodeBase(b) == <<b.ID, b.Type, b.Props, b.Configs, b.Mappers>>
Decodable(bytes) == Len(bytes) = 5
DecodeBase(bytes) ==
  [ID |-> bytes[1], Type |-> bytes[2], Props |-> bytes[3],
   Configs |-> bytes[4], Mappers |-> bytes[5]]

(* ------------------------------ dapr state store ----------------------- *)
GetStateValue(st, id) == IF id \in DOMAIN st THEN st[id] ELSE <<>>
SaveState(st, id, bytes) ==
  [k \in DOMAIN st \cup {id} |-> IF k = id THEN bytes ELSE st[k]]
DeleteState(st, id) == [k \in DOMAIN st \ {id} |-> st[k]]

(* ------------------------------ etcd ----------------------------------- *)
IsPrefix(p, s) == Len(p) <= Len(s) /\ SubSeq(s, 1, Len(p)) = p
EtcdPut(reg, key, val) ==
  [k \in DOMAIN reg \cup {key} |-> IF k = key THEN val ELSE reg[k]]
EtcdDelete(reg, key) == [k \in DOMAIN reg \ {key} |-> reg[k]]
EtcdDeletePrefix(reg, p) ==
  [k \in {x \in DOMAIN reg : ~IsPrefix(p, x)} |-> reg[k]]
(* util.FormatMapper lives in pkg/util: a key formed from a mapper prefix,  *)
(* the entity type, the entity ID and the mapper name, separated by dots.  *)
FormatMapper(typ, id, name) ==
  MapperPrefix \o <<".">> \o typ \o <<".">> \o id \o <<".">> \o name
MapperKey(id, name) == TQLEtcdPrefix \o id \o name

(* ------------------------------ uuid ----------------------------------- *)
HexDigits ==
  <<"0", "1", "2", "3", "4", "5", "6", "7",
    "8", "9", "a", "b", "c", "d", "e", "f">>
Bit(x, i) == (x \div (2 ^ i)) % 2
AndNotBit(x, y) == IF x = 1 /\ y = 0 THEN 1 ELSE 0
OrBit(x, y) == IF x = 1 \/ y = 1 THEN 1 ELSE 0
RECURSIVE AndNotBits(_, _, _)
AndNotBits(a, m, i) ==
  IF i < 0 THEN 0
  ELSE (2 ^ i) * AndNotBit(Bit(a, i), Bit(m, i)) + AndNotBits(a, m, i - 1)
RECURSIVE OrBits(_, _, _)
OrBits(a, b, i) ==
  IF i < 0 THEN 0
  ELSE (2 ^ i) * OrBit(Bit(a, i), Bit(b, i)) + OrBits(a, b, i - 1)
AndNot(a, m) == AndNotBits(a, m, 7)
Or(a, b) == OrBits(a, b, 7)
RECURSIVE HexBytes(_)
HexBytes(bs) ==
  IF bs = <<>> THEN <<>>
  ELSE <<HexDigits[(Head(bs) \div 16) + 1], HexDigits[(Head(bs) % 16) + 1]>>
       \o HexBytes(Tail(bs))
RandFail == <<>>
(* uuid with the version written into the low nibble of byte 6             *)
uuidLowNibble(rnd) ==
  IF rnd = <<>> THEN <<>>
  ELSE LET u1 == [rnd EXCEPT ![9] = Or(AndNot(rnd[9], 192), 128)]
           u == [u1 EXCEPT ![7] = Or(AndNot(u1[7], 15), 4)]
       IN HexBytes(SubSeq(u, 1, 4)) \o <<"-">> \o HexBytes(SubSeq(u, 5, 6))
          \o <<"-">> \o HexBytes(SubSeq(u, 7, 8)) \o <<"-">>
          \o HexBytes(SubSeq(u, 9, 10)) \o <<"-">> \o HexBytes(SubSeq(u, 11, 16))
uuid(rnd) ==
  IF rnd = RandFail THEN <<>>
  ELSE LET u1 == [rnd EXCEPT ![9] = Or(AndNot(rnd[9], 192), 128)]
           u == [u1 EXCEPT ![7] = Or(AndNot(u1[7], 240), 64)]
       IN HexBytes(SubSeq(u, 1, 4)) \o <<"-">> \o HexBytes(SubSeq(u, 5, 6))
          \o <<"-">> \o HexBytes(SubSeq(u, 7, 8)) \o <<"-">>
          \o HexBytes(SubSeq(u, 9, 10)) \o <<"-">> \o HexBytes(SubSeq(u, 11, 16))

(* the values rand.Read hands to CreateEntity in the coordinator model     *)
RandBytes(b) == [i \in 1..16 |-> (b + 17 * i) % 256]
RandInputs == {RandBytes(0)}

(* ------------------------------ getEntityFromState --------------------- *)
(* getEntityFromState without the test for an empty value                  *)
getEntityFromStateNoEmptyTest(st, id, readFails) ==
  IF readFails
  THEN [base |-> NoBase, err |-> Wrap(<<"dapr.GetState">>, "get entity properties")]
  ELSE IF ~Decodable(GetStateValue(st, id))
  THEN [base |-> NoBase, err |-> Wrap(<<"statem.DecodeBase">>, "get entity properties")]
  ELSE [base |-> DecodeBase(GetStateValue(st, id)), err |-> NoErr]
getEntityFromState(st, id, readFails) ==
  IF readFails
  THEN [base |-> NoBase, err |-> Wrap(<<"dapr.GetState">>, "get entity properties")]
  ELSE IF Len(GetStateValue(st, id)) = 0
  THEN [base |-> NoBase, err |-> ErrEntityNotFound]
  ELSE IF ~Decodable(GetStateValue(st, id))
  THEN [base |-> NoBase, err |-> Wrap(<<"statem.DecodeBase">>, "get entity properties")]
  ELSE [base |-> DecodeBase(GetStateValue(st, id)), err |-> NoErr]

(* ------------------------------ state ---------------------------------- *)
EmptyMap == [k \in {} |-> <<>>]
(* The record of the latest invocation: its input, what it returned, the    *)
(* collaborator calls it made in order, the collaborator errors it did not *)
(* return, the registry it started from and the operation that returned    *)
(* success right before it, if one did.                                    *)
Call(op, en, base, err, calls) ==
  [op |-> op, en |-> en, base |-> base, err |-> err, calls |-> calls,
   ignored |-> {}, regBefore |-> registry,
   prev |-> IF last.err = NoErr THEN last.op ELSE "failed"]

Init ==
  /\ store = EmptyMap
  /\ registry = EmptyMap
  /\ search = {}
  /\ rtLive = {}
  /\ msgs = <<>>
  /\ last = [op |-> "none", en |-> NoBase, base |-> NoBase, err |-> NoErr,
             calls |-> <<>>, ignored |-> {}, regBefore |-> EmptyMap,
             prev |-> "none"]
  /\ nops = 0
  /\ inflight = EmptyMap

(* ------------------------------ CreateEntity --------------------------- *)
CreateFails == {"none", "encode", "save"}
(* CreateEntity with the notification sent before SaveState has answered   *)
CreateEntityNotifyFirst(in, rnd, probeFails, fail) ==
  LET base == IF in.ID = <<>> THEN [in EXCEPT !.ID = uuid(rnd)] ELSE in
      pre == IF in.ID = <<>> THEN <<"rand.Read">> ELSE <<>>
      probe == getEntityFromState(store, base.ID, probeFails)
      ign == (IF in.ID = <<>> /\ rnd = RandFail THEN {"rand.Read"} ELSE {})
             \cup (IF probe.err # NoErr /\ ~Is(probe.err, ErrEntityNotFound)
                   THEN {"GetState"} ELSE {})
      Ret(b, err, calls) ==
        [Call("CreateEntity", in, b, err, pre \o calls) EXCEPT !.ignored = ign]
  IN IF Is(probe.err, ErrEntityNotFound)
     THEN /\ last' = Ret(NoBase,
                         IF probe.err = NoErr THEN ErrEntityAreadyExisted
                         ELSE probe.err,
                         <<"GetState">>)
          /\ UNCHANGED <<store, msgs>>
     ELSE IF fail = "encode"
     THEN /\ last' = Ret(NoBase, Wrap(<<"statem.EncodeBase">>, "create entity"),
                         <<"GetState", "EncodeBase">>)
          /\ UNCHANGED <<store, msgs>>
     ELSE IF fail = "save"
     THEN /\ msgs' = Append(msgs, [StateID |-> base.ID, Operator |-> "replace"])
          /\ last' = Ret(NoBase, Wrap(<<"dapr.SaveState">>, "create entity"),
                         <<"GetState", "EncodeBase", "SendMsg", "SaveState">>)
          /\ UNCHANGED store
     ELSE /\ store' = SaveState(store, base.ID, EncodeBase(base))
          /\ msgs' = Append(msgs, [StateID |-> base.ID, Operator |-> "replace"])
          /\ last' = Ret(base, NoErr,
                         <<"GetState", "EncodeBase", "SendMsg", "SaveState">>)

(* CreateEntity persisting the caller's input instead of the snapshot that *)
(* carries the generated ID                                                *)
CreateEntitySaveInput(in, rnd, probeFails, fail) ==
  LET base == IF in.ID = <<>> THEN [in EXCEPT !.ID = uuid(rnd)] ELSE in
      pre == IF in.ID = <<>> THEN <<"rand.Read">> ELSE <<>>
      probe == getEntityFromState(store, base.ID, probeFails)
      ign == (IF in.ID = <<>> /\ rnd = RandFail THEN {"rand.Read"} ELSE {})
             \cup (IF probe.err # NoErr /\ ~Is(probe.err, ErrEntityNotFound)
                   THEN {"GetState"} ELSE {})
      Ret(b, err, calls) ==
        [Call("CreateEntity", in, b, err, pre \o calls) EXCEPT !.ignored = ign]
  IN IF Is(probe.err, ErrEntityNotFound)
     THEN /\ last' = Ret(NoBase,
                         IF probe.err = NoErr THEN ErrEntityAreadyExisted
                         ELSE probe.err,
                         <<"GetState">>)
          /\ UNCHANGED <<store, msgs>>
     ELSE IF fail = "encode"
     THEN /\ last' = Ret(NoBase, Wrap(<<"statem.EncodeBase">>, "create entity"),
                         <<"GetState", "EncodeBase">>)
          /\ UNCHANGED <<store, msgs>>
     ELSE IF fail = "save"
     THEN /\ last' = Ret(NoBase, Wrap(<<"dapr.SaveState">>, "create entity"),
                         <<"GetState", "EncodeBase", "SaveState">>)
          /\ UNCHANGED <<store, msgs>>
     ELSE /\ store' = SaveState(store, base.ID, EncodeBase(in))
          /\ msgs' = Append(msgs, [StateID |-> base.ID, Operator |-> "replace"])
          /\ last' = Ret(base, NoErr,
                         <<"GetState", "EncodeBase", "SaveState", "SendMsg">>)

CreateEntity(in, rnd, probeFails, fail) ==
  LET base == IF in.ID = <<>> THEN [in EXCEPT !.ID = uuid(rnd)] ELSE in
      pre == IF in.ID = <<>> THEN <<"rand.Read">> ELSE <<>>
      probe == getEntityFromState(store, base.ID, probeFails)
      ign == (IF in.ID = <<>> /\ rnd = RandFail THEN {"rand.Read"} ELSE {})
             \cup (IF probe.err # NoErr /\ ~Is(probe.err, ErrEntityNotFound)
                   THEN {"GetState"} ELSE {})
      Ret(b, err, calls) ==
        [Call("CreateEntity", in, b, err, pre \o calls) EXCEPT !.ignored = ign]
  IN IF Is(probe.err, ErrEntityNotFound)
     THEN /\ last' = Ret(NoBase,
                         IF probe.err = NoErr THEN ErrEntityAreadyExisted
                         ELSE probe.err,
                         <<"GetState">>)
          /\ UNCHANGED <<store, msgs>>
     ELSE IF fail = "encode"
     THEN /\ last' = Ret(NoBase, Wrap(<<"statem.EncodeBase">>, "create entity"),
                         <<"GetState", "EncodeBase">>)
          /\ UNCHANGED <<store, msgs>>
     ELSE IF fail = "save"
     THEN /\ last' = Ret(NoBase, Wrap(<<"dapr.SaveState">>, "create entity"),
                         <<"GetState", "EncodeBase", "SaveState">>)
          /\ UNCHANGED <<store, msgs>>
     ELSE /\ store' = SaveState(store, base.ID, EncodeBase(base))
          /\ msgs' = Append(msgs, [StateID |-> base.ID, Operator |-> "replace"])
          /\ last' = Ret(base, NoErr,
                         <<"GetState", "EncodeBase", "SaveState", "SendMsg">>)

CreateInputs ==
  [ID : InputIDs, Type : Types, Props : PropVals, Configs : CfgVals,
   Mappers : {<<>>}]

DoCreateEntity ==
  /\ nops < MaxOps
  /\ \E in \in CreateInputs, probeFails \in BOOLEAN, fail \in CreateFails,
        rnd \in RandInputs \cup {RandFail} :
       /\ (in.ID # <<>> => rnd = RandFail)
       /\ CreateEntity(in, rnd, probeFails, fail)
  /\ nops' = nops + 1
  /\ UNCHANGED <<registry, search, rtLive, inflight>>

(* ------------------------------ DeleteEntity --------------------------- *)
DeleteCalls == <<"DeleteStateMarchin", "DeleteByID", "DeleteState", "etcd.Delete">>
DeleteFails == {"none", "teardown", "search", "state", "etcd"}
(* DeleteEntity with the state store deleted before the search index       *)
DeleteEntityStateFirst(en, fail) ==
  IF fail = "teardown"
  THEN /\ last' = Call("DeleteEntity", en, NoBase,
                       Wrap(<<"runtime.DeleteStateMarchin">>, "delete entity from runtime"),
                       <<"DeleteStateMarchin">>)
       /\ UNCHANGED <<rtLive, search, store, registry>>
  ELSE IF fail = "search"
  THEN /\ rtLive' = rtLive \ {en.ID}
       /\ store' = DeleteState(store, en.ID)
       /\ last' = Call("DeleteEntity", en, NoBase,
                       Wrap(<<"search.DeleteByID">>, "delete entity from es state"),
                       <<"DeleteStateMarchin", "DeleteByID">>)
       /\ UNCHANGED <<search, registry>>
  ELSE IF fail = "state"
  THEN /\ rtLive' = rtLive \ {en.ID}
       /\ last' = Call("DeleteEntity", en, NoBase,
                       Wrap(<<"dapr.DeleteState">>, "delete entity from state"),
                       <<"DeleteStateMarchin", "DeleteByID", "DeleteState">>)
       /\ UNCHANGED <<search, store, registry>>
  ELSE /\ rtLive' = rtLive \ {en.ID}
       /\ search' = search \ {en.ID}
       /\ store' = DeleteState(store, en.ID)
       /\ registry' = IF fail = "etcd" THEN registry
                      ELSE EtcdDeletePrefix(registry,
                                            FormatMapper(en.Type, en.ID, Subscription))
       /\ last' = IF fail = "etcd"
                  THEN Call("DeleteEntity", en, NoBase,
                            Wrap(<<"etcd.Delete">>, "delete entity"), DeleteCalls)
                  ELSE Call("DeleteEntity", en, en, NoErr, DeleteCalls)
DeleteEntity(en, fail) ==
  IF fail = "teardown"
  THEN /\ last' = Call("DeleteEntity", en, NoBase,
                       Wrap(<<"runtime.DeleteStateMarchin">>, "delete entity from runtime"),
                       <<"DeleteStateMarchin">>)
       /\ UNCHANGED <<rtLive, search, store, registry>>
  ELSE IF fail = "search"
  THEN /\ rtLive' = rtLive \ {en.ID}
       /\ last' = Call("DeleteEntity", en, NoBase,
                       Wrap(<<"search.DeleteByID">>, "delete entity from es state"),
                       <<"DeleteStateMarchin", "DeleteByID">>)
       /\ UNCHANGED <<search, store, registry>>
  ELSE IF fail = "state"
  THEN /\ rtLive' = rtLive \ {en.ID}
       /\ search' = search \ {en.ID}
       /\ last' = Call("DeleteEntity", en, NoBase,
                       Wrap(<<"dapr.DeleteState">>, "delete entity from state"),
                       <<"DeleteStateMarchin", "DeleteByID", "DeleteState">>)
       /\ UNCHANGED <<store, registry>>
  ELSE IF fail = "etcd"
  THEN /\ rtLive' = rtLive \ {en.ID}
       /\ search' = search \ {en.ID}
       /\ store' = DeleteState(store, en.ID)
       /\ last' = Call("DeleteEntity", en, NoBase,
                       Wrap(<<"etcd.Delete">>, "delete entity"),
                       <<"DeleteStateMarchin", "DeleteByID", "DeleteState", "etcd.Delete">>)
       /\ UNCHANGED registry
  ELSE /\ rtLive' = rtLive \ {en.ID}
       /\ search' = search \ {en.ID}
       /\ store' = DeleteState(store, en.ID)
       /\ registry' = EtcdDeletePrefix(registry,
                                       FormatMapper(en.Type, en.ID, Subscription))
       /\ last' = Call("DeleteEntity", en, en, NoErr,
                       <<"DeleteStateMarchin", "DeleteByID", "DeleteState", "etcd.Delete">>)

DeleteInputs ==
  [ID : InputIDs, Type : Types, Props : {"p1"}, Configs : CfgVals,
   Mappers : {<<>>}]

DoDeleteEntity ==
  /\ nops < MaxOps
  /\ \E en \in DeleteInputs, fail \in DeleteFails : DeleteEntity(en, fail)
  /\ nops' = nops + 1
  /\ UNCHANGED <<msgs, inflight>>

(* ------------------------------ runtime -------------------------------- *)
(* The state machine runtime (pkg/runtime) applies a synchronous mutation  *)
(* to the live entity and may or may not have flushed the result to the    *)
(* state store by the time the call returns.                               *)
Persisted(st, en) ==
  IF Decodable(GetStateValue(st, en.ID)) THEN DecodeBase(GetStateValue(st, en.ID))
  ELSE [en EXCEPT !.Mappers = <<>>]
RuntimeApply(kind, st, en) ==
  IF kind = "SetConfigs"
  THEN SaveState(st, en.ID, EncodeBase([Persisted(st, en) EXCEPT !.Configs = en.Configs]))
  ELSE SaveState(st, en.ID, EncodeBase([Persisted(st, en) EXCEPT !.Props = en.Props]))

(* delivery of a PropertyMessage sent with SendMsg: the runtime loads the  *)
(* state machine named by StateID.                                         *)
RuntimeLoad ==
  /\ msgs # <<>>
  /\ rtLive' = rtLive \cup {Head(msgs).StateID}
  /\ search' = search \cup {Head(msgs).StateID}
  /\ msgs' = Tail(msgs)
  /\ UNCHANGED <<store, registry, last, nops, inflight>>

(* ------------------------------ GetProperties -------------------------- *)
GetProperties(en, readFails) ==
  LET r == getEntityFromState(store, en.ID, readFails)
  IN last' = Call("GetProperties", en, r.base, Wrap(r.err, "entity GetProperties"),
                  <<"GetState">>)

ReadInputs ==
  [ID : InputIDs, Type : Types, Props : {"p1"}, Configs : CfgVals,
   Mappers : {<<>>}]

DoGetProperties ==
  /\ nops < MaxOps
  /\ \E en \in ReadInputs, readFails \in BOOLEAN : GetProperties(en, readFails)
  /\ nops' = nops + 1
  /\ UNCHANGED <<store, registry, search, rtLive, msgs, inflight>>

(* ------------------ SetProperties / PatchEntity / SetConfigs ----------- *)
MutateLabel(kind) ==
  CASE kind = "SetProperties" -> "set entity properties"
    [] kind = "PatchEntity" -> "patch entity properties"
    [] kind = "SetConfigs" -> "set entity configs"
MutateFails == {"none", "rt", "read"}
(* the mutation handlers returning their input instead of the re-read      *)
MutateEcho(kind, en, fail, flush) ==
  IF fail = "rt"
  THEN /\ last' = Call(kind, en, NoBase,
                       Wrap(<<"runtime." \o kind>>, MutateLabel(kind)),
                       <<"runtime." \o kind>>)
       /\ UNCHANGED <<store, rtLive, search>>
  ELSE /\ rtLive' = rtLive \cup {en.ID}
       /\ store' = IF flush THEN RuntimeApply(kind, store, en) ELSE store
       /\ search' = IF flush THEN search \cup {en.ID} ELSE search
       /\ last' = Call(kind, en, en, NoErr, <<"runtime." \o kind, "GetState">>)
(* the mutation handlers saving their input to the state store themselves *)
MutateSelfSave(kind, en, fail, flush) ==
  IF fail = "rt"
  THEN /\ last' = Call(kind, en, NoBase,
                       Wrap(<<"runtime." \o kind>>, MutateLabel(kind)),
                       <<"runtime." \o kind>>)
       /\ UNCHANGED <<store, rtLive, search>>
  ELSE /\ rtLive' = rtLive \cup {en.ID}
       /\ store' = SaveState(store, en.ID, EncodeBase(en))
       /\ search' = IF flush THEN search \cup {en.ID} ELSE search
       /\ LET r == getEntityFromState(store', en.ID, fail = "read")
          IN last' = Call(kind, en, r.base, Wrap(r.err, MutateLabel(kind)),
                          <<"runtime." \o kind, "GetState">>)
Mutate(kind, en, fail, flush) ==
  IF fail = "rt"
  THEN /\ last' = Call(kind, en, NoBase,
                       Wrap(<<"runtime." \o kind>>, MutateLabel(kind)),
                       <<"runtime." \o kind>>)
       /\ UNCHANGED <<store, rtLive, search>>
  ELSE /\ rtLive' = rtLive \cup {en.ID}
       /\ store' = IF flush THEN RuntimeApply(kind, store, en) ELSE store
       /\ search' = IF flush THEN search \cup {en.ID} ELSE search
       /\ LET r == getEntityFromState(store', en.ID, fail = "read")
          IN last' = Call(kind, en, r.base, Wrap(r.err, MutateLabel(kind)),
                          <<"runtime." \o kind, "GetState">>)

MutateInputs ==
  [ID : {<<>>, <<"a">>}, Type : Types, Props : {"p2"}, Configs : CfgVals,
   Mappers : {<<>>}]

SetProperties(en, fail, flush) == Mutate("SetProperties", en, fail, flush)
PatchEntity(en, patchData, fail, flush) ==
  Mutate("PatchEntity", [en EXCEPT !.Props = patchData], fail, flush)
SetConfigs(en, fail, flush) == Mutate("SetConfigs", en, fail, flush)

DoSetProperties ==
  /\ nops < MaxOps
  /\ \E en \in MutateInputs, fail \in MutateFails, flush \in BOOLEAN :
       SetProperties(en, fail, flush)
  /\ nops' = nops + 1
  /\ UNCHANGED <<registry, msgs, inflight>>

DoPatchEntity ==
  /\ nops < MaxOps
  /\ \E en \in MutateInputs, patchData \in {"p2"}, fail \in MutateFails,
        flush \in BOOLEAN :
       PatchEntity(en, patchData, fail, flush)
  /\ nops' = nops + 1
  /\ UNCHANGED <<registry, msgs, inflight>>

DoSetConfigs ==
  /\ nops < MaxOps
  /\ \E en \in MutateInputs, fail \in MutateFails, flush \in BOOLEAN :
       SetConfigs(en, fail, flush)
  /\ nops' = nops + 1
  /\ UNCHANGED <<registry, msgs, inflight>>

(* ------------------------------ AppendMapper / RemoveMapper ------------ *)
(* the append loop walking the list from its end                           *)
RECURSIVE PutMappersReversed(_, _, _, _)
PutMappersReversed(reg, id, ms, n) ==
  IF n = 0 THEN reg
  ELSE PutMappersReversed(EtcdPut(reg, MapperKey(id, ms[n].Name), ms[n].TQLString),
                          id, ms, n - 1)
(* the append loop keeping the rule a key already holds                    *)
RECURSIVE PutMappersKeepExisting(_, _, _, _)
PutMappersKeepExisting(reg, id, ms, n) ==
  IF n = 0 THEN reg
  ELSE LET r == PutMappersKeepExisting(reg, id, ms, n - 1)
           k == MapperKey(id, ms[n].Name)
       IN IF k \in DOMAIN r THEN r ELSE EtcdPut(r, k, ms[n].TQLString)
RECURSIVE PutMappers(_, _, _, _)
PutMappers(reg, id, ms, n) ==
  IF n = 0 THEN reg
  ELSE EtcdPut(PutMappers(reg, id, ms, n - 1),
               MapperKey(id, ms[n].Name), ms[n].TQLString)
(* the remove loop forming its key without the entity ID                   *)
RECURSIVE DeleteMappersNoID(_, _, _, _)
DeleteMappersNoID(reg, id, ms, n) ==
  IF n = 0 THEN reg
  ELSE EtcdDelete(DeleteMappersNoID(reg, id, ms, n - 1),
                  TQLEtcdPrefix \o ms[n].Name)
RECURSIVE DeleteMappers(_, _, _, _)
DeleteMappers(reg, id, ms, n) ==
  IF n = 0 THEN reg
  ELSE EtcdDelete(DeleteMappers(reg, id, ms, n - 1), MapperKey(id, ms[n].Name))
Repeat(x, n) == [i \in 1..n |-> x]

MapperFails == {"none", "precheck", "rt", "read"}
AppendMapper(en, fail, putFail) ==
  IF fail = "precheck"
  THEN /\ last' = Call("AppendMapper", en, NoBase,
                       Wrap(<<"dapr.GetState">>, "get state"), <<"GetState">>)
       /\ UNCHANGED <<registry, rtLive>>
  ELSE IF putFail \in 1..Len(en.Mappers)
  THEN /\ registry' = PutMappers(registry, en.ID, en.Mappers, putFail - 1)
       /\ last' = Call("AppendMapper", en, NoBase,
                       Wrap(<<"etcd.Put">>, "append mapper"),
                       <<"GetState">> \o Repeat("etcd.Put", putFail))
       /\ UNCHANGED rtLive
  ELSE IF fail = "rt"
  THEN /\ registry' = PutMappers(registry, en.ID, en.Mappers, Len(en.Mappers))
       /\ last' = Call("AppendMapper", en, NoBase,
                       Wrap(<<"runtime.AppendMapper">>, "append mapper"),
                       <<"GetState">> \o Repeat("etcd.Put", Len(en.Mappers))
                       \o <<"runtime.AppendMapper">>)
       /\ UNCHANGED rtLive
  ELSE /\ registry' = PutMappers(registry, en.ID, en.Mappers, Len(en.Mappers))
       /\ rtLive' = rtLive \cup {en.ID}
       /\ LET r == getEntityFromState(store, en.ID, fail = "read")
          IN last' = Call("AppendMapper", en, r.base, Wrap(r.err, "append mapper"),
                          <<"GetState">> \o Repeat("etcd.Put", Len(en.Mappers))
                          \o <<"runtime.AppendMapper", "GetState">>)

RemoveMapper(en, fail, delFail) ==
  IF fail = "precheck"
  THEN /\ last' = Call("RemoveMapper", en, NoBase,
                       Wrap(<<"dapr.GetState">>, "get state"), <<"GetState">>)
       /\ UNCHANGED <<registry, rtLive>>
  ELSE IF delFail \in 1..Len(en.Mappers)
  THEN /\ registry' = DeleteMappers(registry, en.ID, en.Mappers, delFail - 1)
       /\ last' = Call("RemoveMapper", en, NoBase,
                       Wrap(<<"etcd.Delete">>, "append mapper"),
                       <<"GetState">> \o Repeat("etcd.Delete", delFail))
       /\ UNCHANGED rtLive
  ELSE IF fail = "rt"
  THEN /\ registry' = DeleteMappers(registry, en.ID, en.Mappers, Len(en.Mappers))
       /\ last' = Call("RemoveMapper", en, NoBase,
                       Wrap(<<"runtime.RemoveMapper">>, "remove mapper"),
                       <<"GetState">> \o Repeat("etcd.Delete", Len(en.Mappers))
                       \o <<"runtime.RemoveMapper">>)
       /\ UNCHANGED rtLive
  ELSE /\ registry' = DeleteMappers(registry, en.ID, en.Mappers, Len(en.Mappers))
       /\ rtLive' = rtLive \cup {en.ID}
       /\ LET r == getEntityFromState(store, en.ID, fail = "read")
          IN last' = Call("RemoveMapper", en, r.base, Wrap(r.err, "remove mapper"),
                          <<"GetState">> \o Repeat("etcd.Delete", Len(en.Mappers))
                          \o <<"runtime.RemoveMapper", "GetState">>)

AppendInputs ==
  [ID : {<<"a">>, <<"a", "b">>}, Type : Types, Props : {"p1"}, Configs : CfgVals,
   Mappers : MapperLists]
RemoveInputs ==
  [ID : {<<"a">>, <<"a", "b">>}, Type : Types, Props : {"p1"}, Configs : CfgVals,
   Mappers : NameLists]

DoAppendMapper ==
  /\ nops < MaxOps
  /\ \E en \in AppendInputs, fail \in MapperFails, putFail \in 0..MaxMappers :
       /\ putFail <= Len(en.Mappers)
       /\ (putFail > 0 => fail = "none")
       /\ AppendMapper(en, fail, putFail)
  /\ nops' = nops + 1
  /\ UNCHANGED <<store, search, msgs, inflight>>

DoRemoveMapper ==
  /\ nops < MaxOps
  /\ \E en \in RemoveInputs, fail \in MapperFails, delFail \in 0..MaxMappers :
       /\ delFail <= Len(en.Mappers)
       /\ (delFail > 0 => fail = "none")
       /\ RemoveMapper(en, fail, delFail)
  /\ nops' = nops + 1
  /\ UNCHANGED <<store, search, msgs, inflight>>

Next ==
  \/ DoCreateEntity
  \/ DoDeleteEntity
  \/ DoGetProperties
  \/ DoSetProperties
  \/ DoPatchEntity
  \/ DoSetConfigs
  \/ DoAppendMapper
  \/ DoRemoveMapper
  \/ RuntimeLoad

Spec == Init /\ [][Next]_vars

(* ------------------------------ readers of the state store ------------ *)
(* The state store is shared: another writer may leave bytes under a key   *)
(* that statem.DecodeBase rejects.  The handlers that read or write the    *)
(* state store run against such a store; AppendMapper and RemoveMapper     *)
(* never write it.                                                         *)
Garbage == <<"x">>
ForeignWrite ==
  /\ \E id \in {<<"a">>} :
       /\ GetStateValue(store, id) # Garbage
       /\ store' = SaveState(store, id, Garbage)
  /\ UNCHANGED <<registry, search, rtLive, msgs, last, nops, inflight>>
ReadNext ==
  \/ DoCreateEntity
  \/ DoDeleteEntity
  \/ DoGetProperties
  \/ DoSetProperties
  \/ DoPatchEntity
  \/ DoSetConfigs
  \/ RuntimeLoad
  \/ ForeignWrite
ReadSpec == Init /\ [][ReadNext]_vars

(* ------------------------------ concurrent invocations ----------------- *)
(* The handlers take no lock (the lock field of EntityManager is never     *)
(* used), so two invocations interleave at every collaborator call. Each   *)
(* invocation in flight keeps its position pc, its input en, and its       *)
(* result once it has returned; faulted records that one of its            *)
(* collaborator calls returned an error.                                   *)
ConcID == <<"a">>
ConcInput(props) ==
  [ID |-> ConcID, Type |-> <<"d">>, Props |-> props, Configs |-> "c1",
   Mappers |-> <<>>]
Invocation(op, en) ==
  [op |-> op, en |-> en,
   pc |-> IF op = "CreateEntity" THEN "probe" ELSE "teardown",
   base |-> NoBase, err |-> NoErr, faulted |-> FALSE]
TwoCreates ==
  <<Invocation("CreateEntity", ConcInput("p1")),
    Invocation("CreateEntity", ConcInput("p2"))>>
CreateAndDelete ==
  <<Invocation("CreateEntity", ConcInput("p1")),
    Invocation("DeleteEntity", ConcInput("p1"))>>
(* the entity is either unknown, or was set up by the runtime through a    *)
(* flushed SetProperties                                                   *)
ConcInit ==
  /\ \E existing \in BOOLEAN :
       /\ store = IF existing
                  THEN RuntimeApply("SetProperties", EmptyMap, ConcInput("p2"))
                  ELSE EmptyMap
       /\ rtLive = IF existing THEN {ConcID} ELSE {}
       /\ search = IF existing THEN {ConcID} ELSE {}
  /\ registry = EmptyMap
  /\ msgs = <<>>
  /\ last = [op |-> "none", en |-> NoBase, base |-> NoBase, err |-> NoErr,
             calls |-> <<>>, ignored |-> {}, regBefore |-> EmptyMap,
             prev |-> "none"]
  /\ nops = 0
  /\ inflight \in {TwoCreates, CreateAndDelete}

At(p, op, pc) == inflight[p].op = op /\ inflight[p].pc = pc
Goto(p, pc, faulted) ==
  inflight' = [inflight EXCEPT ![p].pc = pc,
                               ![p].faulted = inflight[p].faulted \/ faulted]
Return(p, base, err) ==
  inflight' = [inflight EXCEPT ![p].pc = "done", ![p].base = base, ![p].err = err,
                               ![p].faulted = inflight[p].faulted \/ err # NoErr]

(* CreateEntity, step 1: the existence probe and its test                  *)
CreateProbe(p, probeFails) ==
  /\ At(p, "CreateEntity", "probe")
  /\ LET r == getEntityFromState(store, inflight[p].en.ID, probeFails)
     IN IF Is(r.err, ErrEntityNotFound)
        THEN inflight' = [inflight EXCEPT ![p].pc = "done",
                            ![p].err = IF r.err = NoErr THEN ErrEntityAreadyExisted
                                       ELSE r.err]
        ELSE Goto(p, "save", r.err # NoErr)
  /\ UNCHANGED <<store, registry, search, rtLive, msgs, last, nops>>
(* CreateEntity, step 2: EncodeBase and SaveState                          *)
CreateSave(p, fail) ==
  /\ At(p, "CreateEntity", "save")
  /\ IF fail = "encode"
     THEN /\ Return(p, NoBase, Wrap(<<"statem.EncodeBase">>, "create entity"))
          /\ UNCHANGED store
     ELSE IF fail = "save"
     THEN /\ Return(p, NoBase, Wrap(<<"dapr.SaveState">>, "create entity"))
          /\ UNCHANGED store
     ELSE /\ store' = SaveState(store, inflight[p].en.ID, EncodeBase(inflight[p].en))
          /\ Goto(p, "send", FALSE)
  /\ UNCHANGED <<registry, search, rtLive, msgs, last, nops>>
(* CreateEntity, step 3: SendMsg and return                                *)
CreateSend(p) ==
  /\ At(p, "CreateEntity", "send")
  /\ msgs' = Append(msgs, [StateID |-> inflight[p].en.ID, Operator |-> "replace"])
  /\ Return(p, inflight[p].en, NoErr)
  /\ UNCHANGED <<store, registry, search, rtLive, last, nops>>

(* DeleteEntity, step 1: DeleteStateMarchin                                *)
DeleteTeardown(p, fails) ==
  /\ At(p, "DeleteEntity", "teardown")
  /\ IF fails
     THEN /\ Return(p, NoBase, Wrap(<<"runtime.DeleteStateMarchin">>,
                                    "delete entity from runtime"))
          /\ UNCHANGED rtLive
     ELSE /\ rtLive' = rtLive \ {inflight[p].en.ID}
          /\ Goto(p, "search", FALSE)
  /\ UNCHANGED <<store, registry, search, msgs, last, nops>>
(* DeleteEntity, step 2: DeleteByID                                        *)
DeleteSearch(p, fails) ==
  /\ At(p, "DeleteEntity", "search")
  /\ IF fails
     THEN /\ Return(p, NoBase, Wrap(<<"search.DeleteByID">>,
                                    "delete entity from es state"))
          /\ UNCHANGED search
     ELSE /\ search' = search \ {inflight[p].en.ID}
          /\ Goto(p, "state", FALSE)
  /\ UNCHANGED <<store, registry, rtLive, msgs, last, nops>>
(* DeleteEntity, step 3: DeleteState                                       *)
DeleteStored(p, fails) ==
  /\ At(p, "DeleteEntity", "state")
  /\ IF fails
     THEN /\ Return(p, NoBase, Wrap(<<"dapr.DeleteState">>,
                                    "delete entity from state"))
          /\ UNCHANGED store
     ELSE /\ store' = DeleteState(store, inflight[p].en.ID)
          /\ Goto(p, "etcd", FALSE)
  /\ UNCHANGED <<registry, search, rtLive, msgs, last, nops>>
(* DeleteEntity, step 4: the prefix delete in etcd, and return             *)
DeleteEtcd(p, fails) ==
  /\ At(p, "DeleteEntity", "etcd")
  /\ IF fails
     THEN /\ Return(p, NoBase, Wrap(<<"etcd.Delete">>, "delete entity"))
          /\ UNCHANGED registry
     ELSE /\ registry' = EtcdDeletePrefix(registry,
                            FormatMapper(inflight[p].en.Type, inflight[p].en.ID,
                                         Subscription))
          /\ Return(p, inflight[p].en, NoErr)
  /\ UNCHANGED <<store, search, rtLive, msgs, last, nops>>

ConcNext ==
  \/ \E p \in DOMAIN inflight, probeFails \in BOOLEAN : CreateProbe(p, probeFails)
  \/ \E p \in DOMAIN inflight, fail \in CreateFails : CreateSave(p, fail)
  \/ \E p \in DOMAIN inflight : CreateSend(p)
  \/ \E p \in DOMAIN inflight, fails \in BOOLEAN : DeleteTeardown(p, fails)
  \/ \E p \in DOMAIN inflight, fails \in BOOLEAN : DeleteSearch(p, fails)
  \/ \E p \in DOMAIN inflight, fails \in BOOLEAN : DeleteStored(p, fails)
  \/ \E p \in DOMAIN inflight, fails \in BOOLEAN : DeleteEtcd(p, fails)
  \/ RuntimeLoad
ConcSpec == ConcInit /\ [][ConcNext]_vars

(* ------------------------------ uuid on its own ------------------------ *)
(* uuid() applied to the bytes rand.Read delivered: bytes 6 and 8 range    *)
(* over all values, the other bytes vary with them.                        *)
Bytes == 0..255
WideRand(x, y) ==
  [i \in 1..16 |-> IF i = 7 THEN x ELSE IF i = 9 THEN y
                   ELSE (x * i + y + 17 * i) % 256]
UuidInit ==
  /\ store = EmptyMap
  /\ registry = EmptyMap
  /\ search = {}
  /\ rtLive = {}
  /\ msgs = <<>>
  /\ nops = 0
  /\ inflight = EmptyMap
  /\ \E x \in Bytes, y \in Bytes :
       last = [op |-> "rand.Read", rnd |-> WideRand(x, y), id |-> <<>>]
UuidGen ==
  /\ last.op = "rand.Read"
  /\ last' = [op |-> "uuid", rnd |-> last.rnd, id |-> uuid(last.rnd)]
  /\ UNCHANGED <<store, registry, search, rtLive, msgs, nops, inflight>>
UuidNext == UuidGen
UuidSpec == UuidInit /\ [][UuidNext]_vars

(* ======================================================================= *)
(* Claims                                                                  *)
(* ======================================================================= *)
Returned(op) == nops' = nops + 1 /\ last'.op = op
HasSnapshot(st, id) == Len(GetStateValue(st, id)) > 0
EntityPrefix(id) == TQLEtcdPrefix \o id
MapperSet(reg, id) ==
  {<<k, reg[k]>> : k \in {x \in DOMAIN reg : IsPrefix(EntityPrefix(id), x)}}

(* C1: CreateEntity with an ID that already has a snapshot in the state    *)
(* store fails with AlreadyExists and changes neither the state store, the *)
(* registry nor the runtime (no notification is sent).                     *)
C1_CreateExistingRejected ==
  [][(Returned("CreateEntity") /\ last'.en.ID # <<>>
      /\ HasSnapshot(store, last'.en.ID))
     => (/\ Is(last'.err, ErrEntityAreadyExisted)
         /\ last'.base = NoBase
         /\ store' = store
         /\ registry' = registry
         /\ rtLive' = rtLive
         /\ msgs' = msgs)]_vars

(* C2: when the probe of CreateEntity finds no snapshot for the ID and     *)
(* neither encoding nor SaveState fails, CreateEntity returns the input    *)
(* snapshot without error and a read of that ID returns an equal snapshot. *)
CreateTargets(en) ==
  IF en.ID # <<>> THEN {en.ID} ELSE {uuid(r) : r \in RandInputs}
C2_CreateFreshSucceeds ==
  [][(/\ Returned("CreateEntity")
      /\ last'.ignored = {}
      /\ \A id \in CreateTargets(last'.en) : ~HasSnapshot(store, id)
      /\ ~Is(last'.err, <<"statem.EncodeBase">>)
      /\ ~Is(last'.err, <<"dapr.SaveState">>))
     => (/\ last'.err = NoErr
         /\ last'.base # NoBase
         /\ last'.base.ID \in CreateTargets(last'.en)
         /\ last'.base = [last'.en EXCEPT !.ID = last'.base.ID]
         /\ getEntityFromState(store', last'.base.ID, FALSE)
              = [base |-> last'.base, err |-> NoErr])]_vars

(* C3: DeleteEntity runs runtime teardown, search delete, state delete,    *)
(* registry prefix delete in this order; when step k fails the error names *)
(* step k, no later step is attempted (its store is unchanged) and the     *)
(* effects of the steps before k stay.                                     *)
DeleteOrder == <<"DeleteStateMarchin", "DeleteByID", "DeleteState", "etcd.Delete">>
DeleteLabels ==
  <<"delete entity from runtime", "delete entity from es state",
    "delete entity from state", "delete entity">>
DeleteDone(c) == IF c.err = NoErr THEN Len(c.calls) ELSE Len(c.calls) - 1
C3_DeletePipeline ==
  [][Returned("DeleteEntity")
     => LET c == last'
            id == c.en.ID
            n == DeleteDone(c)
        IN /\ Len(c.calls) \in 1..4
           /\ c.calls = SubSeq(DeleteOrder, 1, Len(c.calls))
           /\ (c.err = NoErr => Len(c.calls) = 4)
           /\ (c.err # NoErr => c.err[1] = DeleteLabels[Len(c.calls)]
                                /\ c.base = NoBase)
           /\ rtLive' = (IF n >= 1 THEN rtLive \ {id} ELSE rtLive)
           /\ search' = (IF n >= 2 THEN search \ {id} ELSE search)
           /\ (n < 3 => store' = store)
           /\ (n >= 3 => /\ ~HasSnapshot(store', id)
                         /\ \A k \in DOMAIN store \ {id} :
                              k \in DOMAIN store' /\ store'[k] = store[k])
           /\ (n < 4 => registry' = registry)
           /\ msgs' = msgs]_vars
C3_Witness ==
  /\ last.op = "DeleteEntity"
  /\ last.err # NoErr
  /\ last.err[1] = "delete entity from es state"
  /\ last.en.ID \notin rtLive
  /\ last.en.ID \in search
  /\ HasSnapshot(store, last.en.ID)
  /\ MapperSet(registry, last.en.ID) # {}

(* C4: after a DeleteEntity whose four calls all succeed the entity is in  *)
(* neither the runtime, the search index nor the state store, and no       *)
(* registry entry under the entity's mapper key prefix remains, the        *)
(* entries AppendMapper wrote for that ID included.                        *)
C4_DeleteRemovesEverything ==
  [][(Returned("DeleteEntity") /\ last'.err = NoErr /\ last'.en.ID # <<>>)
     => (/\ last'.en.ID \notin rtLive'
         /\ last'.en.ID \notin search'
         /\ ~HasSnapshot(store', last'.en.ID)
         /\ MapperSet(registry', last'.en.ID) = {})]_vars

(* C5: AppendMapper and RemoveMapper apply the mappers to the registry in  *)
(* list order; when the registry call for mapper i fails the error names   *)
(* the mapper step, mappers 1..i-1 stay applied, mappers from i on are not *)
(* applied and the runtime is not called.                                  *)
MapperCall(op) == IF op = "AppendMapper" THEN "etcd.Put" ELSE "etcd.Delete"
RegistryFailed(c) ==
  c.err # NoErr /\ c.calls[Len(c.calls)] = MapperCall(c.op)
Applied(c) ==
  IF RegistryFailed(c) THEN Len(c.calls) - 2
  ELSE IF Len(c.calls) = 1 THEN 0
  ELSE Len(c.en.Mappers)
LastWrite(ms, id, n, k) ==
  {i \in 1..n : MapperKey(id, ms[i].Name) = k
                /\ \A j \in (i + 1)..n : MapperKey(id, ms[j].Name) # k}
C5_MapperListOrder ==
  [][(Returned("AppendMapper") \/ Returned("RemoveMapper"))
     => LET c == last'
            id == c.en.ID
            ms == c.en.Mappers
            n == Applied(c)
            written == {MapperKey(id, ms[i].Name) : i \in 1..n}
        IN /\ n \in 0..Len(ms)
           /\ c.calls[1] = "GetState"
           /\ (RegistryFailed(c)
               => /\ c.err[1] = "append mapper"
                  /\ c.base = NoBase
                  /\ c.calls = <<"GetState">> \o [i \in 1..(n + 1) |-> MapperCall(c.op)]
                  /\ rtLive' = rtLive)
           /\ (c.op = "AppendMapper"
               => /\ DOMAIN registry' = DOMAIN registry \cup written
                  /\ \A k \in DOMAIN registry' :
                       IF k \in written
                       THEN \E i \in LastWrite(ms, id, n, k) :
                              registry'[k] = ms[i].TQLString
                       ELSE registry'[k] = registry[k])
           /\ (c.op = "RemoveMapper"
               => /\ DOMAIN registry' = DOMAIN registry \ written
                  /\ \A k \in DOMAIN registry' : registry'[k] = registry[k])]_vars
C5_Witness ==
  /\ last.op = "AppendMapper"
  /\ Len(last.en.Mappers) = 2
  /\ RegistryFailed(last)
  /\ Len(last.calls) = 3
  /\ last.en.Mappers[1].Name # last.en.Mappers[2].Name
  /\ MapperKey(last.en.ID, last.en.Mappers[1].Name) \in DOMAIN registry
  /\ registry[MapperKey(last.en.ID, last.en.Mappers[1].Name)]
       = last.en.Mappers[1].TQLString
  /\ MapperKey(last.en.ID, last.en.Mappers[2].Name) \notin DOMAIN registry
  /\ last.en.ID \notin rtLive

(* C6: for an existing entity, a successful AppendMapper of mappers whose  *)
(* names were not present, followed by a successful RemoveMapper of the    *)
(* same names, leaves the entity's set of registry entries as it was       *)
(* before the append.                                                      *)
NameSet(ms) == {ms[i].Name : i \in 1..Len(ms)}
C7_MapperPrecheckRejectsAbsent ==
  (last.op \in {"AppendMapper", "RemoveMapper"} /\ ~HasSnapshot(store, last.en.ID))
  => (/\ last.err # NoErr
      /\ last.calls = <<"GetState">>
      /\ registry = last.regBefore)

(* C8: SetProperties, SetConfigs and PatchEntity call the runtime first;   *)
(* when it fails they return the wrapped error without reading the state   *)
(* store; when it succeeds they read the persisted snapshot of the ID and  *)
(* return exactly that snapshot, or the error of the read.                 *)
MutateOps == {"SetProperties", "SetConfigs", "PatchEntity"}
C8_MutateThenReread ==
  last.op \in MutateOps
  => /\ last.calls[1] = "runtime." \o last.op
     /\ (Is(last.err, <<"runtime." \o last.op>>)
         => /\ last.calls = <<"runtime." \o last.op>>
            /\ last.base = NoBase
            /\ last.err[1] = MutateLabel(last.op))
     /\ (~Is(last.err, <<"runtime." \o last.op>>)
         => /\ last.calls = <<"runtime." \o last.op, "GetState">>
            /\ (last.err = NoErr
                => /\ HasSnapshot(store, last.en.ID)
                   /\ last.base = DecodeBase(store[last.en.ID]))
            /\ (last.err # NoErr
                => /\ last.base = NoBase
                   /\ last.err[1] = MutateLabel(last.op)
                   /\ (Is(last.err, ErrEntityNotFound)
                       => ~HasSnapshot(store, last.en.ID))))
C8_Witness ==
  /\ last.op \in MutateOps
  /\ last.err = NoErr
  /\ last.base.Props # last.en.Props
  /\ last.base = DecodeBase(store[last.en.ID])

(* C9: when rand.Read fails while CreateEntity generates an ID, the call   *)
(* fails with IdentifierGenerationFailed; it saves nothing under the empty *)
(* key and sends no notification.                                          *)
C9_RandFailureReported ==
  (last.op = "CreateEntity" /\ "rand.Read" \in last.ignored)
  => (/\ Is(last.err, <<"IdentifierGenerationFailed">>)
      /\ last.calls = <<"rand.Read">>)

(* C10: the identifier made from 16 random bytes has 36 characters in      *)
(* hexadecimal groups of 8-4-4-4-12 separated by hyphens; the high nibble  *)
(* of byte 6 is 4, the high nibble of byte 8 is 8, 9, a or b, and every    *)
(* other bit is the bit of the random input.                               *)
HexVal(ch) == CHOOSE v \in 0..15 : HexDigits[v + 1] = ch
Hyphens == {9, 14, 19, 24}
HexPos == <<1, 3, 5, 7, 10, 12, 15, 17, 20, 22, 25, 27, 29, 31, 33, 35>>
ByteAt(id, i) == 16 * HexVal(id[HexPos[i]]) + HexVal(id[HexPos[i] + 1])
C10_UuidFormat ==
  last.op = "uuid"
  => /\ Len(last.id) = 36
     /\ \A p \in 1..36 :
          IF p \in Hyphens THEN last.id[p] = "-"
          ELSE \E v \in 1..16 : HexDigits[v] = last.id[p]
     /\ last.id[15] = "4"
     /\ last.id[20] \in {"8", "9", "a", "b"}
     /\ \A i \in 1..16 :
          IF i = 7 THEN ByteAt(last.id, i) % 16 = last.rnd[i] % 16
          ELSE IF i = 9 THEN ByteAt(last.id, i) % 64 = last.rnd[i] % 64
          ELSE ByteAt(last.id, i) = last.rnd[i]
C10_Witness ==
  /\ last.op = "uuid"
  /\ last.rnd[7] \div 16 = 15
  /\ last.rnd[9] \div 64 = 3
  /\ last.rnd[1] < 16
  /\ last.id[15] = "4"
  /\ last.id[20] = "b"
  /\ last.id[1] = "0"

(* C11: GetProperties returns the decoded stored snapshot when one exists, *)
(* NotFound when the state store holds no value for the ID, a decoding     *)
(* error when the stored bytes do not decode and the wrapped store error   *)
(* when the read fails; it changes no store.                               *)
ReadErrors == {"ErrEntityNotFound", "statem.DecodeBase", "dapr.GetState"}
C11_GetProperties ==
  [][Returned("GetProperties")
     => LET c == last'
            v == GetStateValue(store, c.en.ID)
        IN /\ store' = store
           /\ registry' = registry
           /\ search' = search
           /\ rtLive' = rtLive
           /\ msgs' = msgs
           /\ c.calls = <<"GetState">>
           /\ (c.err = NoErr => Len(v) > 0 /\ Decodable(v) /\ c.base = DecodeBase(v))
           /\ (c.err # NoErr
               => /\ c.base = NoBase
                  /\ c.err[1] = "entity GetProperties"
                  /\ c.err[Len(c.err)] \in ReadErrors)
           /\ (Is(c.err, ErrEntityNotFound) => Len(v) = 0)
           /\ (Is(c.err, <<"statem.DecodeBase">>) => Len(v) > 0 /\ ~Decodable(v))
           /\ (Len(v) = 0 => Is(c.err, ErrEntityNotFound) \/ Is(c.err, <<"dapr.GetState">>))
           /\ ((Len(v) > 0 /\ ~Decodable(v))
               => Is(c.err, <<"statem.DecodeBase">>) \/ Is(c.err, <<"dapr.GetState">>))
           /\ ((Len(v) > 0 /\ Decodable(v))
               => c.err = NoErr \/ Is(c.err, <<"dapr.GetState">>))]_vars
C11_Witness ==
  /\ last.op = "GetProperties"
  /\ Is(last.err, <<"statem.DecodeBase">>)
  /\ last.base = NoBase
  /\ store[last.en.ID] = Garbage

(* C12: every operation returns either a snapshot and no error, or no      *)
(* snapshot and an error; it never returns both and never returns success  *)
(* after one of its collaborator calls failed.                             *)
C12_NoPartialSuccess ==
  last.op # "none"
  => /\ (last.base # NoBase) # (last.err # NoErr)
     /\ (last.err = NoErr => last.ignored = {})

(* C13: when the probe of CreateEntity fails with an error other than not  *)
(* found, CreateEntity returns that error wrapped and makes neither the    *)
(* SaveState call nor the runtime notification.                            *)
InCalls(c, name) == \E i \in 1..Len(c.calls) : c.calls[i] = name
C13_ProbeErrorAborts ==
  (last.op = "CreateEntity" /\ "GetState" \in last.ignored)
  => (/\ last.base = NoBase
      /\ Is(last.err, <<"dapr.GetState">>) \/ Is(last.err, <<"statem.DecodeBase">>)
      /\ ~InCalls(last, "SaveState")
      /\ ~InCalls(last, "SendMsg"))

(* C14: in CreateEntity the "replace" notification is sent only after      *)
(* SaveState has succeeded: a call that fails at encoding or at SaveState  *)
(* returns the error wrapped "create entity" and sends nothing; a          *)
(* successful call has saved the returned snapshot and sends exactly one   *)
(* notification, whose StateID is the returned ID, as its last step.       *)
CallPos(c, name) == CHOOSE i \in 1..Len(c.calls) : c.calls[i] = name
C14_NotifyAfterSave ==
  [][Returned("CreateEntity") =>
       IF last'.err = NoErr
       THEN /\ msgs' = Append(msgs, [StateID |-> last'.base.ID,
                                     Operator |-> "replace"])
            /\ GetStateValue(store', last'.base.ID) = EncodeBase(last'.base)
            /\ InCalls(last', "SaveState") /\ InCalls(last', "SendMsg")
            /\ CallPos(last', "SaveState") < CallPos(last', "SendMsg")
            /\ CallPos(last', "SendMsg") = Len(last'.calls)
       ELSE /\ msgs' = msgs
            /\ ~InCalls(last', "SendMsg")
            /\ (InCalls(last', "EncodeBase")
                  => /\ Head(last'.err) = "create entity"
                     /\ store' = store)]_vars
C14_Witness ==
  /\ last.op = "CreateEntity" /\ last.err = NoErr
  /\ Len(msgs) = 1 /\ msgs[1].StateID = last.base.ID
  /\ HasSnapshot(store, last.base.ID)

(* C16: every snapshot persisted under key k of the state store has ID k,  *)
(* and no step changes the ID of a snapshot that stays persisted; this     *)
(* includes the snapshot CreateEntity saves for an empty input ID.         *)
C16_PersistedIDIsKey ==
  [][\A k \in DOMAIN store' :
       Decodable(store'[k])
       => /\ DecodeBase(store'[k]).ID = k
          /\ (k \in DOMAIN store /\ Decodable(store[k])
                => DecodeBase(store'[k]).ID = DecodeBase(store[k]).ID)]_vars
C16_Witness ==
  /\ last.op = "CreateEntity" /\ last.en.ID = <<>> /\ last.err = NoErr
  /\ Len(last.base.ID) = 36
  /\ last.base.ID \in DOMAIN store
  /\ DecodeBase(store[last.base.ID]).ID = last.base.ID

(* C15: for one entity, a successful AppendMapper leaves under the key of  *)
(* each name it lists the rule of that name's last occurrence, replacing   *)
(* any prior rule; the names a preceding successful AppendMapper of the    *)
(* same entity wrote and this one does not list keep their rule; and       *)
(* appending the same list again leaves the registry as the first append   *)
(* left it.                                                                *)
RuleOf(ms, nm) ==
  ms[CHOOSE i \in 1..Len(ms) :
       ms[i].Name = nm /\ \A j \in (i + 1)..Len(ms) : ms[j].Name # nm].TQLString
C15_AppendReplaces ==
  [][(Returned("AppendMapper") /\ last'.err = NoErr)
     => LET id == last'.en.ID
            ms == last'.en.Mappers
        IN /\ \A nm \in NameSet(ms) :
                /\ MapperKey(id, nm) \in DOMAIN registry'
                /\ registry'[MapperKey(id, nm)] = RuleOf(ms, nm)
           /\ (last.op = "AppendMapper" /\ last.err = NoErr /\ last.en.ID = id)
              => /\ \A nm \in NameSet(last.en.Mappers) \ NameSet(ms) :
                      /\ MapperKey(id, nm) \in DOMAIN registry'
                      /\ registry'[MapperKey(id, nm)] = RuleOf(last.en.Mappers, nm)
                 /\ (last.en.Mappers = ms => registry' = registry)]_vars
C15_Witness ==
  /\ last.op = "AppendMapper" /\ last.err = NoErr
  /\ last.prev = "AppendMapper"
  /\ \E nm \in NameSet(last.en.Mappers) :
       /\ MapperKey(last.en.ID, nm) \in DOMAIN last.regBefore
       /\ last.regBefore[MapperKey(last.en.ID, nm)] = "r1"
       /\ registry[MapperKey(last.en.ID, nm)] = "r2"
       /\ RuleOf(last.en.Mappers, nm) = "r2"

(* C17: SetProperties, SetConfigs, PatchEntity and GetProperties never     *)
(* write to or delete from the state store, the registry or the search     *)
(* index themselves: they call nothing but the one runtime mutation (none  *)
(* for GetProperties) and GetState, the registry and the message queue     *)
(* stay as they were, and the store and the search index change only by    *)
(* what the runtime mutation persisted.                                    *)
C17_MutationFrame ==
  [][(\E op \in MutateOps \cup {"GetProperties"} : Returned(op))
     => LET c == last'
            rt == "runtime." \o c.op
        IN /\ registry' = registry
           /\ msgs' = msgs
           /\ \A i \in 1..Len(c.calls) : c.calls[i] \in {rt, "GetState"}
           /\ IF c.op = "GetProperties" \/ ~InCalls(c, rt) \/ c.calls = <<rt>>
              THEN /\ store' = store
                   /\ search' = search
                   /\ rtLive' = rtLive
                   /\ (c.op = "GetProperties" => c.calls = <<"GetState">>)
              ELSE /\ c.calls = <<rt, "GetState">>
                   /\ store' \in {store, RuntimeApply(c.op, store, c.en)}
                   /\ search' \in {search, search \cup {c.en.ID}}]_vars
C17_Witness ==
  /\ last.op = "SetConfigs" /\ last.err = NoErr
  /\ last.prev = "CreateEntity"
  /\ last.calls = <<"runtime.SetConfigs", "GetState">>
  /\ last.base.Props = "p1"
  /\ registry = EmptyMap

(* C18: the registry keys of distinct (ID, Name) pairs are distinct, so an *)
(* AppendMapper or RemoveMapper on one entity leaves every registry entry  *)
(* that the preceding AppendMapper wrote for a different entity in place   *)
(* with its rule.                                                          *)
C18_MapperKeysDisjoint ==
  [][(/\ Returned("AppendMapper") \/ Returned("RemoveMapper")
      /\ last.op = "AppendMapper"
      /\ last.en.ID # last'.en.ID)
     => \A i \in 1..Applied(last) :
          LET k == MapperKey(last.en.ID, last.en.Mappers[i].Name)
          IN /\ \A nm \in NameSet(last'.en.Mappers) :
                  MapperKey(last'.en.ID, nm) # k
             /\ k \in DOMAIN registry'
             /\ registry'[k] = registry[k]]_vars

(* C19: of two concurrent CreateEntity invocations with the same non-empty *)
(* ID and different snapshots at most one returns success, and once both   *)
(* have returned the state store holds under that ID the snapshot of the   *)
(* invocation that returned success.                                       *)
BothDone == \A p \in DOMAIN inflight : inflight[p].pc = "done"
C19_OneCreateWins ==
  (inflight = <<>> \/ ~BothDone \/ \E p \in DOMAIN inflight : inflight[p].op # "CreateEntity")
  \/ /\ \E p \in DOMAIN inflight : inflight[p].err # NoErr
     /\ \A p \in DOMAIN inflight :
          inflight[p].err = NoErr
          => GetStateValue(store, ConcID) = EncodeBase(inflight[p].en)

(* C20: when one CreateEntity and one DeleteEntity of the same ID have     *)
(* both returned and no collaborator call failed, the state store and the  *)
(* runtime agree: the snapshot is not deleted while the runtime has loaded *)
(* or is still to receive the replace notification, and the snapshot is    *)
(* not persisted while the runtime is torn down with no notification left. *)
Pending(id) == \E i \in 1..Len(msgs) : msgs[i].StateID = id
C20_CreateDeleteAgree ==
  (/\ inflight # <<>>
   /\ BothDone
   /\ \E p \in DOMAIN inflight : inflight[p].op = "DeleteEntity"
   /\ \A p \in DOMAIN inflight : ~inflight[p].faulted)
  => /\ ~HasSnapshot(store, ConcID) => (~Pending(ConcID) /\ ConcID \notin rtLive)
     /\ HasSnapshot(store, ConcID) => (Pending(ConcID) \/ ConcID \in rtLive)
====
